---- MODULE Spec2Model ----
(***************************************************************************)
(* Keyword-trigger / de-duplication engine and answer pagination /         *)
(* delivery lifecycle of the SillyTavern question-answering Discord bot.   *)
(*                                                                         *)
(*   SpecTrigger        on_message / on_message_edit and the processed-    *)
(*                      message cache       (cogs/qa_handler.py)           *)
(*   SpecShouldProcess  _should_process_message as a pure function         *)
(*   SpecPages          _create_answer_pages (utils/message_formatter.py)  *)
(*   SpecDelivery       one trigger-originated request, from placeholder   *)
(*                      to final message    (cogs/ai_integration.py)       *)
(*   SpecView           PaginationView      (utils/pagination_view.py)     *)
(*   SpecKeywords       keyword commands and the pattern store             *)
(*   SpecSend           send_with_auto_delete and auto_delete_message      *)
(*   SpecReload         _load_dynamic_keywords calls interleaved           *)
(*   SpecEvents         the listeners, with the order of their evaluations *)
(*   SpecSplit          the forced-split loop, one iteration per step      *)
(*   SpecClassify       classify_error_severity                            *)
(*   SpecMonitor        record_api_error   (utils/api_error_monitor.py)    *)
(*                                                                         *)
(* Message texts are sequences of words: the regular expressions of the    *)
(* program are modelled by what they accept over the vocabulary Words.     *)
(***************************************************************************)
EXTENDS Integers, Sequences, FiniteSets, TLC

VARIABLES
  \* ---- trigger engine (QAHandlerCog, config) ----
  processed_messages,      \* self.processed_messages : set of message ids
  compiled_patterns,       \* self.compiled_patterns  : sequence of patterns
  keyword_patterns,        \* self.keyword_patterns   : same order, the sources
  AUTO_REPLY_ENABLED,      \* config.AUTO_REPLY_ENABLED
  KEYWORD_TRIGGER_ENABLED, \* config.KEYWORD_TRIGGER_ENABLED
  MONITOR_CHANNELS,        \* config.MONITOR_CHANNELS
  dispatched,              \* observer: ids some earlier event handed to a handler
  last_event,              \* observer: the latest event and the handlers it invoked
  \* ---- _should_process_message as a function ----
  sp_message,              \* the message it is applied to
  sp_result,               \* "pending" or its result
  \* ---- _create_answer_pages as a function ----
  answer,                  \* the answer string, a sequence of characters
  page_size,               \* its page_size argument
  pages,                   \* the list of pages it returned
  pages_state,             \* "idle", "pending" or "returned"
  \* ---- one trigger-originated request (non-slash path) ----
  rq_kind,                 \* which handler of QAHandlerCog took the message
  rq_pc,                   \* where the request is
  rq_oversize,             \* attachment.size > 20 MB
  ai_cog_loaded,           \* bot.get_cog("AI集成") is not None
  ai_response,             \* what the answering collaborator returned
  bot_msgs,                \* the messages the bot sent for the request
  edit_outcome,            \* observer: how the placeholder edit of the answer went
  rq_outcome,              \* observer: how the request ended
  db_failed,               \* observer: the persistence calls that failed
  \* ---- PaginationView ----
  max_pages,               \* self.max_pages = len(pages)
  current_page,            \* self.current_page
  disabled,                \* the disabled flag of each of the five buttons
  view_message,            \* "shown" or "deleted": the message the view is on
  view_finished,           \* the view timed out and takes no more interactions
  requester,               \* the user the answer was made for (self.user_name)
  view_event,              \* observer: the latest interaction and its user
  \* ---- keyword management (QAHandlerCog and the pattern store) ----
  kw_store,                \* the rows of the pattern store: pattern, enabled
  dynamic_keyword_patterns, \* self.dynamic_keyword_patterns
  kw_event,                \* observer: the latest operation and its outcome
  \* ---- one call of EmbedFormatter.send_with_auto_delete ----
  snd_target,              \* "channel" or "interaction"
  snd_response_done,       \* target.response.is_done()
  snd_ephemeral,           \* the ephemeral argument
  snd_delete_after,        \* the delete_after argument
  snd_pc,                  \* where the call is
  snd_visible,             \* the message sent: "none", "public", "ephemeral", "deleted"
  snd_return,              \* "pending", or what the call returned
  del_task,                \* the auto_delete_message task of the message
  \* ---- the _load_dynamic_keywords calls in flight ----
  reload_tasks,            \* per call: where it is and what its query read
  \* ---- one message event, step by step ----
  ev_trace,                \* observer: what the latest event evaluated, in order
  \* ---- the forced-split loop of _create_answer_pages, per iteration ----
  hs_size,                 \* page_size
  hs_paragraph,            \* paragraph
  hs_pages,                \* the pages the loop appended
  hs_pc,                   \* "loop" or "done"
  \* ---- APIErrorMonitor.classify_error_severity as a function ----
  cl_message,              \* error_message, a sequence of words
  cl_severity,             \* "pending", or the severity returned
  \* ---- APIErrorMonitor.record_api_error calls for one error key ----
  mon_clock,               \* datetime.now(), in seconds
  mon_ticks,               \* how often the clock has advanced
  mon_severity,            \* the severity of the key's message
  error_counts,            \* self.error_counts[error_key]
  last_notifications,      \* self.last_notifications.get(error_key): {} is None
  mon_calls,               \* per call: where it is, and its local "now"
  mon_sent,                \* the notifications delivered, by decision time
  mon_event                \* observer: the latest cooldown decision

triggerVars == <<processed_messages, compiled_patterns, keyword_patterns,
                 AUTO_REPLY_ENABLED, KEYWORD_TRIGGER_ENABLED, MONITOR_CHANNELS,
                 dispatched, last_event>>
shouldVars == <<sp_message, sp_result>>
pageVars == <<answer, page_size, pages, pages_state>>
deliveryVars == <<rq_kind, rq_pc, rq_oversize, ai_cog_loaded, ai_response,
                  bot_msgs, edit_outcome, rq_outcome, db_failed>>

viewVars == <<max_pages, current_page, disabled, view_message, view_finished,
              requester, view_event>>

kwVars == <<kw_store, dynamic_keyword_patterns, kw_event>>

sendVars == <<snd_target, snd_response_done, snd_ephemeral, snd_delete_after,
              snd_pc, snd_visible, snd_return, del_task>>

reloadVars == <<reload_tasks>>

\* the fields of the specifications further down
eventVars == <<ev_trace>>

splitVars == <<hs_size, hs_paragraph, hs_pages, hs_pc>>

classifyVars == <<cl_message, cl_severity>>

monitorVars == <<mon_clock, mon_ticks, mon_severity, error_counts,
                 last_notifications, mon_calls, mon_sent, mon_event>>

laterVars == <<reloadVars, eventVars, splitVars, classifyVars, monitorVars>>

vars == <<triggerVars, shouldVars, pageVars, deliveryVars, viewVars, kwVars,
          sendVars, laterVars>>

-----------------------------------------------------------------------------
(* Bounds of the model *)

\* self.cache_max_size, scaled down from the program's 1000 so that the
\* eviction (one id more than the maximum) is reached
cache_max_size == 3

\* message ids: one more than the cache holds
MsgIds == 1..(cache_max_size + 1)

Channels == {1, 2}

-----------------------------------------------------------------------------
(* Texts, attachments, messages *)

Words == {"sillytavern", "error", "x", "hello", "thanks", "!", "#"}

\* every text of at most two words (the empty text included)
Texts == {<<>>} \cup {<<w>> : w \in Words} \cup {<<v, w>> : v, w \in Words}

HasWord(text, w) == \E i \in 1..Len(text) : text[i] = w

PngError == [content_type |-> "image/png", filename |-> "error.png"]
PngPhoto == [content_type |-> "image/png", filename |-> "photo.png"]
TxtLog == [content_type |-> "text/plain", filename |-> "error.txt"]

\* message.attachments: no attachment, or one
AttachmentLists == {<<>>, <<PngError>>, <<PngPhoto>>, <<TxtLog>>}

Messages(ids, texts) ==
  [id : ids, author_bot : BOOLEAN, content : texts,
   attachments : AttachmentLists, channel_id : Channels]

-----------------------------------------------------------------------------
(* Patterns *)

\* the built-in patterns, in the program's order
default_keyword_patterns ==
  << "sillytavern", "silly\\s*tavern", "st\\s+(error|bug)",
     "tavern.*(error|bug)", "(openai|claude|gemini).*(api|error|key)",
     "character\\s*card", "zh:character card", "chat\\s*completion",
     "zh:chat completion", "connection\\s*failed", "zh:connection failed",
     "api\\s*(key|error)", "context.*length", "zh:context.*length",
     "(setting|config).*(error)", "\\bst\\b", "zh:test bot",
     "help.*sillytavern", "sillytavern.*help" >>

\* the patterns the store of the model holds: two that compile, and one
\* that re.compile rejects
ValidDynamic == {"tavern", "error"}
Malformed == {"("}
StorePatterns == ValidDynamic \cup Malformed

\* re.compile(pattern, re.IGNORECASE | re.UNICODE) does not raise re.error
Compiles(pattern) == pattern \notin Malformed

\* pattern.search(text), re.IGNORECASE: what each pattern accepts over Words
Search(pattern, text) ==
  CASE pattern \in {"sillytavern", "silly\\s*tavern"} ->
         HasWord(text, "sillytavern")
    [] pattern = "tavern.*(error|bug)" ->
         \E i, j \in 1..Len(text) :
            i < j /\ text[i] = "sillytavern" /\ text[j] = "error"
    [] pattern = "tavern" -> HasWord(text, "sillytavern")
    [] pattern = "error" -> HasWord(text, "error")
    [] OTHER -> FALSE

\* self.exclude_compiled: symbol-prefixed, a bare greeting, a bare thanks
ExcludeMatches(text) ==
  \/ Len(text) > 0 /\ text[1] \in {"!", "#"}
  \/ text = <<"hello">>
  \/ text = <<"thanks">>

-----------------------------------------------------------------------------
(* QAHandlerCog *)

should_monitor_channel(channel_id) ==
  IF MONITOR_CHANNELS = {} THEN TRUE ELSE channel_id \in MONITOR_CHANNELS

\* the variant of _should_process_message without the duplicate check
ShouldProcessNoDedup(message) ==
  IF message.author_bot THEN FALSE
  ELSE IF message.content = <<>> /\ message.attachments = <<>> THEN FALSE
  ELSE IF ~should_monitor_channel(message.channel_id) THEN FALSE
  ELSE IF ~AUTO_REPLY_ENABLED THEN FALSE
  ELSE IF Len(message.content) > 0 /\ message.content[1] = "!" THEN FALSE
  ELSE TRUE

_should_process_message(message) ==
  IF message.author_bot THEN FALSE
  ELSE IF message.content = <<>> /\ message.attachments = <<>> THEN FALSE
  ELSE IF message.id \in processed_messages THEN FALSE
  ELSE IF ~should_monitor_channel(message.channel_id) THEN FALSE
  ELSE IF ~AUTO_REPLY_ENABLED THEN FALSE
  ELSE IF Len(message.content) > 0 /\ message.content[1] = "!" THEN FALSE
  ELSE TRUE

\* the variant of MatchRun that counts every dynamic pattern that matches
MatchRunCountsAll(text) ==
  IF ~KEYWORD_TRIGGER_ENABLED \/ text = <<>>
  THEN [result |-> FALSE, excluded |-> FALSE, evaluated |-> 0, spawned |-> {}]
  ELSE IF ExcludeMatches(text)
  THEN [result |-> FALSE, excluded |-> TRUE, evaluated |-> 0, spawned |-> {}]
  ELSE LET hits == {i \in 1..Len(compiled_patterns) :
                      Search(compiled_patterns[i], text)} IN
       [result |-> hits # {}, excluded |-> FALSE,
        evaluated |-> Len(compiled_patterns),
        spawned |-> {keyword_patterns[i] :
                       i \in {h \in hits : h > Len(default_keyword_patterns)}}]

\* the variant of MatchRun that tries the keyword patterns before the
\* exclusions
MatchRunKeywordsFirst(text) ==
  IF ~KEYWORD_TRIGGER_ENABLED \/ text = <<>>
  THEN [result |-> FALSE, excluded |-> FALSE, evaluated |-> 0, spawned |-> {}]
  ELSE LET hits == {i \in 1..Len(compiled_patterns) :
                      Search(compiled_patterns[i], text)} IN
       IF hits # {}
       THEN LET i == CHOOSE h \in hits : \A g \in hits : h <= g IN
            [result |-> TRUE, excluded |-> FALSE, evaluated |-> i,
             spawned |-> IF i > Len(default_keyword_patterns)
                         THEN {keyword_patterns[i]} ELSE {}]
       ELSE [result |-> FALSE, excluded |-> ExcludeMatches(text),
             evaluated |-> Len(compiled_patterns), spawned |-> {}]

\* one run of _contains_trigger_keywords: its result, whether an exclusion
\* matched, how many keyword patterns it searched with, and the dynamic
\* patterns it spawned a counter increment for
MatchRun(text) ==
  IF ~KEYWORD_TRIGGER_ENABLED \/ text = <<>>
  THEN [result |-> FALSE, excluded |-> FALSE, evaluated |-> 0, spawned |-> {}]
  ELSE IF ExcludeMatches(text)
  THEN [result |-> FALSE, excluded |-> TRUE, evaluated |-> 0, spawned |-> {}]
  ELSE LET hits == {i \in 1..Len(compiled_patterns) :
                      Search(compiled_patterns[i], text)} IN
       IF hits = {}
       THEN [result |-> FALSE, excluded |-> FALSE,
             evaluated |-> Len(compiled_patterns), spawned |-> {}]
       ELSE LET i == CHOOSE h \in hits : \A g \in hits : h <= g IN
            [result |-> TRUE, excluded |-> FALSE, evaluated |-> i,
             spawned |-> IF i > Len(default_keyword_patterns)
                         THEN {keyword_patterns[i]} ELSE {}]

_contains_trigger_keywords(text) == MatchRun(text).result

IsImage(att) == att.content_type = "image/png"

_should_analyze_image(message) ==
  LET image_attachments == SelectSeq(message.attachments, IsImage) IN
  IF message.attachments = <<>> THEN FALSE
  ELSE IF image_attachments = <<>> THEN FALSE
  ELSE IF HasWord(message.content, "error") THEN TRUE
  ELSE \E i \in 1..Len(image_attachments) :
          image_attachments[i].filename = "error.png"

\* the variant of _mark_message_processed that never evicts
MarkNoEviction(cache, message_id) == {cache \cup {message_id}}

\* _mark_message_processed: the caches it can leave. set.pop() removes an
\* arbitrary element, so every choice of to_remove elements is possible.
_mark_message_processed(cache, message_id) ==
  LET added == cache \cup {message_id} IN
  IF Cardinality(added) > cache_max_size
  THEN LET to_remove == Cardinality(added) - (cache_max_size \div 2) IN
       {added \ R : R \in {S \in SUBSET added : Cardinality(S) = to_remove}}
  ELSE {added}

NoEvent == [id |-> 0, handlers |-> {}]
NoMessage == [id |-> 0]

\* on_message: the filter, then the keyword handler and, with no "else",
\* the image handler; each handler marks the message processed first.
on_message(message) ==
  IF ~_should_process_message(message)
  THEN /\ last_event' = [id |-> message.id, handlers |-> {}]
       /\ UNCHANGED <<processed_messages, dispatched>>
  ELSE LET kw == _contains_trigger_keywords(message.content)
           img == message.attachments # <<>> /\ _should_analyze_image(message)
           after_kw == IF kw
                       THEN _mark_message_processed(processed_messages, message.id)
                       ELSE {processed_messages}
           after_img == IF img
                        THEN UNION {_mark_message_processed(c, message.id) :
                                      c \in after_kw}
                        ELSE after_kw
           handlers == (IF kw THEN {"keyword"} ELSE {})
                         \cup (IF img THEN {"image"} ELSE {})
       IN /\ processed_messages' \in after_img
          /\ last_event' = [id |-> message.id, handlers |-> handlers]
          /\ dispatched' = IF handlers # {} THEN dispatched \cup {message.id}
                           ELSE dispatched

\* the texts the events of SpecTrigger carry: plain, keyword, help-intent,
\* keyword with help-intent
EventTexts == {<<"x">>, <<"sillytavern">>, <<"error">>, <<"sillytavern", "error">>}

MessageCreate ==
  \E message \in Messages(MsgIds, EventTexts) :
    /\ on_message(message)
    /\ UNCHANGED <<compiled_patterns, keyword_patterns, AUTO_REPLY_ENABLED,
                   KEYWORD_TRIGGER_ENABLED, MONITOR_CHANNELS>>

\* on_message_edit: only a keyword that the edit added is handled
MessageEdit ==
  \E before_content \in EventTexts, after \in Messages(MsgIds, EventTexts) :
    /\ IF ~_contains_trigger_keywords(before_content)
          /\ _contains_trigger_keywords(after.content)
       THEN on_message(after)
       ELSE /\ last_event' = [id |-> after.id, handlers |-> {}]
            /\ UNCHANGED <<processed_messages, dispatched>>
    /\ UNCHANGED <<compiled_patterns, keyword_patterns, AUTO_REPLY_ENABLED,
                   KEYWORD_TRIGGER_ENABLED, MONITOR_CHANNELS>>

toggle_auto_reply ==
  /\ AUTO_REPLY_ENABLED' = ~AUTO_REPLY_ENABLED
  /\ last_event' = NoEvent
  /\ UNCHANGED <<processed_messages, compiled_patterns, keyword_patterns,
                 KEYWORD_TRIGGER_ENABLED, MONITOR_CHANNELS, dispatched>>

toggle_keyword_trigger ==
  /\ KEYWORD_TRIGGER_ENABLED' = ~KEYWORD_TRIGGER_ENABLED
  /\ last_event' = NoEvent
  /\ UNCHANGED <<processed_messages, compiled_patterns, keyword_patterns,
                 AUTO_REPLY_ENABLED, MONITOR_CHANNELS, dispatched>>

-----------------------------------------------------------------------------
(* Keyword management.  The pattern store is the persistence collaborator:
   rows of a pattern and its enabled flag, in insertion order, one row per
   pattern.  Every call to it can fail. *)

StoredPatterns(store) == {store[i].pattern : i \in 1..Len(store)}

\* listPatterns(enabledOnly): the patterns of the rows, in order
get_regex_keywords(store, enabled_only) ==
  LET Wanted(row) == ~enabled_only \/ row.enabled
      rows == SelectSeq(store, Wanted)
  IN [i \in 1..Len(rows) |-> rows[i].pattern]

\* addPattern: the outcomes it can have, success and the store it leaves
add_regex_keyword(store, pattern) ==
  IF pattern \in StoredPatterns(store)
  THEN {[success |-> FALSE, store |-> store]}
  ELSE {[success |-> TRUE,
         store |-> Append(store, [pattern |-> pattern, enabled |-> TRUE])],
        [success |-> FALSE, store |-> store]}

\* removePattern
remove_regex_keyword(store, pattern) ==
  LET Other(row) == row.pattern # pattern IN
  IF pattern \in StoredPatterns(store)
  THEN {[success |-> TRUE, store |-> SelectSeq(store, Other)],
        [success |-> FALSE, store |-> store]}
  ELSE {[success |-> FALSE, store |-> store]}

\* togglePattern: "none" stands for the null of a missing row or a failure
toggle_regex_keyword(store, pattern) ==
  IF pattern \in StoredPatterns(store)
  THEN LET i == CHOOSE k \in 1..Len(store) : store[k].pattern = pattern IN
       {[new_state |-> IF store[i].enabled THEN "disabled" ELSE "enabled",
         store |-> [store EXCEPT ![i].enabled = ~store[i].enabled]],
        [new_state |-> "none", store |-> store]}
  ELSE {[new_state |-> "none", store |-> store]}

\* _load_dynamic_keywords against the store as it is at the call; listed:
\* get_regex_keywords returned.  The except branch (the query raised, or
\* re.compile raised on some pattern) falls back to the built-in patterns.
_load_dynamic_keywords(store, listed) ==
  IF listed
  THEN LET dyn == get_regex_keywords(store, TRUE) IN
       /\ dynamic_keyword_patterns' = dyn
       /\ IF \A i \in 1..Len(dyn) : Compiles(dyn[i])
          THEN /\ keyword_patterns' = default_keyword_patterns \o dyn
               /\ compiled_patterns' = default_keyword_patterns \o dyn
          ELSE /\ keyword_patterns' = default_keyword_patterns
               /\ compiled_patterns' = default_keyword_patterns
  ELSE /\ keyword_patterns' = default_keyword_patterns
       /\ compiled_patterns' = default_keyword_patterns
       /\ UNCHANGED dynamic_keyword_patterns

\* what the keyword commands leave alone
kwFrame == <<processed_messages, AUTO_REPLY_ENABLED, KEYWORD_TRIGGER_ENABLED,
             MONITOR_CHANNELS, dispatched, last_event>>

patternVars == <<compiled_patterns, keyword_patterns, dynamic_keyword_patterns>>

CogLoaded == kw_event.op # "none"

\* cog_load: the first load, before any listener or command runs
cog_load ==
  /\ ~CogLoaded
  /\ \E listed \in BOOLEAN :
       /\ _load_dynamic_keywords(kw_store, listed)
       /\ kw_event' = [op |-> "reload", outcome |-> "done", listed |-> listed]
  /\ UNCHANGED <<kw_store, kwFrame>>

\* /keyword-reload
reload_keywords_cmd ==
  /\ CogLoaded
  /\ \E administrator \in BOOLEAN, listed \in BOOLEAN :
       IF ~administrator
       THEN /\ kw_event' = [op |-> "reload", outcome |-> "denied",
                            listed |-> FALSE]
            /\ UNCHANGED patternVars
       ELSE /\ _load_dynamic_keywords(kw_store, listed)
            /\ kw_event' = [op |-> "reload", outcome |-> "done",
                            listed |-> listed]
  /\ UNCHANGED <<kw_store, kwFrame>>

\* the variant of add_keyword_cmd that stores the pattern without compiling
\* it first
AddWithoutValidation ==
  /\ CogLoaded
  /\ \E pattern \in StorePatterns, manage_messages \in BOOLEAN,
        listed \in BOOLEAN :
       IF ~manage_messages
       THEN /\ kw_event' = [op |-> "add", pattern |-> pattern,
                            outcome |-> "denied"]
            /\ UNCHANGED <<kw_store, patternVars>>
       ELSE \E r \in add_regex_keyword(kw_store, pattern) :
              /\ kw_store' = r.store
              /\ IF r.success
                 THEN /\ _load_dynamic_keywords(r.store, listed)
                      /\ kw_event' = [op |-> "add", pattern |-> pattern,
                                      outcome |-> "added"]
                 ELSE /\ UNCHANGED patternVars
                      /\ kw_event' = [op |-> "add", pattern |-> pattern,
                                      outcome |-> "failed"]
  /\ UNCHANGED kwFrame

\* /keyword-add
add_keyword_cmd ==
  /\ CogLoaded
  /\ \E pattern \in StorePatterns, manage_messages \in BOOLEAN,
        listed \in BOOLEAN :
       IF ~manage_messages
       THEN /\ kw_event' = [op |-> "add", pattern |-> pattern,
                            outcome |-> "denied"]
            /\ UNCHANGED <<kw_store, patternVars>>
       ELSE IF ~Compiles(pattern)
       THEN /\ kw_event' = [op |-> "add", pattern |-> pattern,
                            outcome |-> "invalid"]
            /\ UNCHANGED <<kw_store, patternVars>>
       ELSE \E r \in add_regex_keyword(kw_store, pattern) :
              /\ kw_store' = r.store
              /\ IF r.success
                 THEN /\ _load_dynamic_keywords(r.store, listed)
                      /\ kw_event' = [op |-> "add", pattern |-> pattern,
                                      outcome |-> "added"]
                 ELSE /\ UNCHANGED patternVars
                      /\ kw_event' = [op |-> "add", pattern |-> pattern,
                                      outcome |-> "failed"]
  /\ UNCHANGED kwFrame

\* /keyword-remove
remove_keyword_cmd ==
  /\ CogLoaded
  /\ \E pattern \in StorePatterns, manage_messages \in BOOLEAN,
        listed \in BOOLEAN :
       IF ~manage_messages
       THEN /\ kw_event' = [op |-> "remove", pattern |-> pattern,
                            outcome |-> "denied"]
            /\ UNCHANGED <<kw_store, patternVars>>
       ELSE \E r \in remove_regex_keyword(kw_store, pattern) :
              /\ kw_store' = r.store
              /\ IF r.success
                 THEN /\ _load_dynamic_keywords(r.store, listed)
                      /\ kw_event' = [op |-> "remove", pattern |-> pattern,
                                      outcome |-> "removed"]
                 ELSE /\ UNCHANGED patternVars
                      /\ kw_event' = [op |-> "remove", pattern |-> pattern,
                                      outcome |-> "failed"]
  /\ UNCHANGED kwFrame

\* /keyword-toggle
toggle_keyword_cmd ==
  /\ CogLoaded
  /\ \E pattern \in StorePatterns, manage_messages \in BOOLEAN,
        listed \in BOOLEAN :
       IF ~manage_messages
       THEN /\ kw_event' = [op |-> "toggle", pattern |-> pattern,
                            outcome |-> "denied"]
            /\ UNCHANGED <<kw_store, patternVars>>
       ELSE \E r \in toggle_regex_keyword(kw_store, pattern) :
              /\ kw_store' = r.store
              /\ IF r.new_state # "none"
                 THEN /\ _load_dynamic_keywords(r.store, listed)
                      /\ kw_event' = [op |-> "toggle", pattern |-> pattern,
                                      outcome |-> r.new_state]
                 ELSE /\ UNCHANGED patternVars
                      /\ kw_event' = [op |-> "toggle", pattern |-> pattern,
                                      outcome |-> "failed"]
  /\ UNCHANGED kwFrame

\* the store is changed from outside the program: a row whose pattern does
\* not compile appears in it
StoreCorrupted ==
  /\ CogLoaded
  /\ \E pattern \in Malformed \ StoredPatterns(kw_store) :
       /\ kw_store' = Append(kw_store, [pattern |-> pattern, enabled |-> TRUE])
       /\ kw_event' = [op |-> "corrupted", pattern |-> pattern]
  /\ UNCHANGED <<patternVars, kwFrame>>

\* the texts of the matches: plain, built-in keyword, dynamic keyword, both,
\* and the exclusion shapes with and without a keyword
MatchTexts ==
  {<<"x">>, <<"sillytavern">>, <<"error">>, <<"sillytavern", "error">>,
   <<"hello">>, <<"thanks">>, <<"thanks", "sillytavern">>,
   <<"#", "sillytavern">>, <<"#", "error">>}

\* _contains_trigger_keywords is applied to a text
MatchText ==
  /\ CogLoaded
  /\ \E text \in MatchTexts :
       kw_event' = [op |-> "match", text |-> text, run |-> MatchRun(text)]
  /\ UNCHANGED <<kw_store, patternVars, kwFrame>>

-----------------------------------------------------------------------------
(* EmbedFormatter._create_answer_pages.  A string is a sequence of
   characters over "x", "y", " ", "\n" and "." *)

NL == "\n"
Whitespace == {" ", NL}
Ellipsis == <<".", ".", ".">>

\* the default of the page_size parameter, which every caller uses
DEFAULT_PAGE_SIZE == 1000

Rep(c, n) == [i \in 1..n |-> c]

Min(S) == CHOOSE i \in S : \A j \in S : i <= j

RECURSIVE FirstNonWs(_, _)
FirstNonWs(s, i) ==
  IF i > Len(s) \/ s[i] \notin Whitespace THEN i ELSE FirstNonWs(s, i + 1)

RECURSIVE LastNonWs(_, _)
LastNonWs(s, i) ==
  IF i < 1 \/ s[i] \notin Whitespace THEN i ELSE LastNonWs(s, i - 1)

\* str.strip()
Strip(s) == SubSeq(s, FirstNonWs(s, 1), LastNonWs(s, Len(s)))

\* str.split('\n\n'): cut at the leftmost separator, then split the rest
RECURSIVE Split(_)
Split(s) ==
  LET seps == {j \in 1..(Len(s) - 1) : s[j] = NL /\ s[j + 1] = NL} IN
  IF seps = {} THEN <<s>>
  ELSE LET j == Min(seps) IN
       <<SubSeq(s, 1, j - 1)>> \o Split(SubSeq(s, j + 2, Len(s)))

\* the variant of HardSplit that resumes one character after the split point
RECURSIVE HardSplitOffByOne(_, _, _)
HardSplitOffByOne(paragraph, pgs, size) ==
  IF Len(paragraph) > size
  THEN LET split_point == size - 10 IN
       HardSplitOffByOne(
         Ellipsis \o SubSeq(paragraph, split_point + 2, Len(paragraph)),
         Append(pgs, SubSeq(paragraph, 1, split_point) \o Ellipsis),
         size)
  ELSE [pgs |-> pgs, paragraph |-> paragraph]

\* the forced split of a paragraph that met an empty page: the while loop
RECURSIVE HardSplit(_, _, _)
HardSplit(paragraph, pgs, size) ==
  IF Len(paragraph) > size
  THEN LET split_point == size - 10 IN
       HardSplit(Ellipsis \o SubSeq(paragraph, split_point + 1, Len(paragraph)),
                 Append(pgs, SubSeq(paragraph, 1, split_point) \o Ellipsis),
                 size)
  ELSE [pgs |-> pgs, paragraph |-> paragraph]

\* the for loop over the paragraphs, from paragraph k on
RECURSIVE PackParagraphs(_, _, _, _, _)
PackParagraphs(paragraphs, k, pgs, cur_page, size) ==
  IF k > Len(paragraphs) THEN [pgs |-> pgs, current_page |-> cur_page]
  ELSE LET paragraph == paragraphs[k] IN
       IF Len(cur_page) + Len(paragraph) + 2 > size
       THEN IF cur_page # <<>>
            THEN PackParagraphs(paragraphs, k + 1,
                                Append(pgs, Strip(cur_page)),
                                paragraph \o <<NL, NL>>, size)
            ELSE LET h == HardSplit(paragraph, pgs, size) IN
                 PackParagraphs(paragraphs, k + 1, h.pgs,
                                h.paragraph \o <<NL, NL>>, size)
       ELSE PackParagraphs(paragraphs, k + 1, pgs,
                           cur_page \o paragraph \o <<NL, NL>>, size)

\* the variant of _create_answer_pages that takes an answer of exactly size
\* characters for a long one
CreateAnswerPagesStrictBound(ans, size) ==
  IF Len(ans) < size THEN <<ans>>
  ELSE LET r == PackParagraphs(Split(ans), 1, <<>>, <<>>, size)
           all == IF Strip(r.current_page) # <<>>
                  THEN Append(r.pgs, Strip(r.current_page))
                  ELSE r.pgs
       IN IF all # <<>> THEN all ELSE <<SubSeq(ans, 1, size)>>

_create_answer_pages(ans, size) ==
  IF Len(ans) <= size THEN <<ans>>
  ELSE LET r == PackParagraphs(Split(ans), 1, <<>>, <<>>, size)
           all == IF Strip(r.current_page) # <<>>
                  THEN Append(r.pgs, Strip(r.current_page))
                  ELSE r.pgs
       IN IF all # <<>> THEN all ELSE <<SubSeq(ans, 1, size)>>

\* the answers it is applied to: up to MaxParagraphs paragraphs joined by
\* blank lines
MaxParagraphs == 3

Paragraphs ==
  {<<>>, <<" ">>, <<NL, "x">>, Rep("x", 1), Rep("x", 400), Rep("x", 997),
   Rep("x", 999),
   Rep("y", 800), Rep("x", 1500), Rep("x", 2100)}

RECURSIVE Join(_)
Join(ps) ==
  IF Len(ps) = 1 THEN ps[1] ELSE ps[1] \o <<NL, NL>> \o Join(Tail(ps))

Answers ==
  {Join(ps) : ps \in UNION {[1..n -> Paragraphs] : n \in 1..MaxParagraphs}}

Paginate ==
  /\ pages_state = "pending"
  /\ pages' = _create_answer_pages(answer, page_size)
  /\ pages_state' = "returned"
  /\ UNCHANGED <<answer, page_size>>

-----------------------------------------------------------------------------
(* The forced-split loop of _create_answer_pages, one iteration per step,
   for page sizes other than the default. *)

\* s[:n] and s[n:] of the program's language: a negative n counts from the
\* end, and both are clipped to the string
SliceIndex(s, n) ==
  IF n < 0 THEN (IF Len(s) + n < 0 THEN 0 ELSE Len(s) + n)
  ELSE IF n > Len(s) THEN Len(s) ELSE n
SliceTo(s, n) == SubSeq(s, 1, SliceIndex(s, n))
SliceFrom(s, n) == SubSeq(s, SliceIndex(s, n) + 1, Len(s))

\* the page sizes and the paragraphs of the loop
PageSizes == {1, 5, 10, 13, 14, 20, DEFAULT_PAGE_SIZE}
SplitParagraphs ==
  {Rep("x", n) : n \in {4, 12, 14, 15, 21, 30, 1500, 2100}}

\* the iterations the model follows one run of the loop for
MaxIterations == 4

\* "while len(paragraph) > page_size": one iteration
SplitIteration ==
  /\ hs_pc = "loop"
  /\ Len(hs_paragraph) > hs_size
  /\ Len(hs_pages) < MaxIterations
  /\ LET split_point == hs_size - 10 IN
       /\ hs_pages' = Append(hs_pages,
                             SliceTo(hs_paragraph, split_point) \o Ellipsis)
       /\ hs_paragraph' = Ellipsis \o SliceFrom(hs_paragraph, split_point)
  /\ UNCHANGED <<hs_size, hs_pc>>

\* the loop condition is false
SplitDone ==
  /\ hs_pc = "loop"
  /\ Len(hs_paragraph) <= hs_size
  /\ hs_pc' = "done"
  /\ UNCHANGED <<hs_size, hs_paragraph, hs_pages>>

-----------------------------------------------------------------------------
(* One request on the non-slash path: _handle_keyword_trigger or
   _handle_image_trigger of QAHandlerCog, then _handle_question or
   _handle_image_analysis of AIIntegrationCog.  The answering collaborator,
   the chat platform and the database are the environment: every call to
   them that can fail has a failing outcome. *)

\* config.AUTO_DELETE_DELAY, a configuration input: the delay every caller
\* passes, taken as the default delay of auto_delete_message
AUTO_DELETE_DELAY == 90

\* "keyword_text": keyword, no image   -> _handle_question
\* "keyword_image": keyword and image  -> _handle_image_analysis
\* "image": image trigger only         -> _handle_image_analysis
RequestKinds == {"keyword_text", "keyword_image", "image"}

Msg(role, content, scheduled) ==
  [role |-> role, content |-> content, exists |-> TRUE,
   delete_scheduled |-> scheduled]

\* message.reply(embed = placeholder_embed) returned the placeholder
PlaceholderSent ==
  /\ rq_pc = "start"
  /\ bot_msgs' = Append(bot_msgs, Msg("placeholder", "thinking", FALSE))
  /\ rq_pc' = IF rq_kind = "image" THEN "triggered" ELSE "placed"
  /\ UNCHANGED <<rq_kind, rq_oversize, ai_cog_loaded, ai_response,
                 edit_outcome, rq_outcome>>

\* _handle_keyword_trigger: database.record_keyword_trigger, which logs a
\* database error and returns
RecordKeywordTrigger ==
  /\ rq_pc = "placed"
  /\ rq_pc' = "triggered"
  /\ db_failed' \in {db_failed, db_failed \cup {"record_keyword_trigger"}}
  /\ UNCHANGED <<rq_kind, rq_oversize, ai_cog_loaded, ai_response, bot_msgs,
                 edit_outcome, rq_outcome>>

\* the detached task of _increment_keyword_trigger fails: its own except
\* logs the error
IncrementKeywordTriggerFails ==
  /\ rq_kind \in {"keyword_text", "keyword_image"}
  /\ rq_pc \notin {"idle", "done"}
  /\ "increment_keyword_trigger" \notin db_failed
  /\ db_failed' = db_failed \cup {"increment_keyword_trigger"}
  /\ UNCHANGED <<rq_kind, rq_pc, rq_oversize, ai_cog_loaded, ai_response,
                 bot_msgs, edit_outcome, rq_outcome>>

\* message.reply raised: the handler's except logs the error
PlaceholderSendFails ==
  /\ rq_pc = "start"
  /\ rq_pc' = "done"
  /\ rq_outcome' = "no_placeholder"
  /\ UNCHANGED <<rq_kind, rq_oversize, ai_cog_loaded, ai_response, bot_msgs,
                 edit_outcome>>

\* get_cog returned None: the keyword handler replies with an error embed
\* (no deletion is scheduled for it), the image handler only logs
CogMissing ==
  /\ rq_pc = "triggered"
  /\ ~ai_cog_loaded
  /\ \/ /\ rq_kind \in {"keyword_text", "keyword_image"}
        /\ bot_msgs' = Append(bot_msgs, Msg("reply", "error", FALSE))
     \/ UNCHANGED bot_msgs
  /\ rq_pc' = "done"
  /\ rq_outcome' = "cog_missing"
  /\ UNCHANGED <<rq_kind, rq_oversize, ai_cog_loaded, ai_response, edit_outcome>>

\* _handle_image_analysis, attachment.size > 20 MB: channel.send(error_embed)
\* and return; a send that raises leads to the except branch
RejectOversize ==
  /\ rq_pc = "triggered"
  /\ ai_cog_loaded
  /\ rq_kind \in {"keyword_image", "image"}
  /\ rq_oversize
  /\ \/ /\ bot_msgs' = Append(bot_msgs, Msg("channel", "error", FALSE))
        /\ rq_pc' = "done"
        /\ rq_outcome' = "oversize"
     \/ /\ rq_pc' = "failed"
        /\ UNCHANGED <<bot_msgs, rq_outcome>>
  /\ UNCHANGED <<rq_kind, rq_oversize, ai_cog_loaded, ai_response, edit_outcome>>

CallsCollaborator ==
  /\ rq_pc = "triggered"
  /\ ai_cog_loaded
  /\ rq_kind = "keyword_text" \/ ~rq_oversize

\* ai_client.generate_response / analyze_image returned: an answer of at
\* most 1024 characters, a longer one (shown in a PaginationView), or nothing
AiReturns ==
  /\ CallsCollaborator
  /\ ai_response' \in {"short", "long", "empty"}
  /\ rq_pc' = "deliver"
  /\ UNCHANGED <<rq_kind, rq_oversize, ai_cog_loaded, bot_msgs, edit_outcome,
                 rq_outcome>>

\* the call, or attachment.read() / Image.open before it, raised
AiRaises ==
  /\ CallsCollaborator
  /\ rq_pc' = "failed"
  /\ UNCHANGED <<rq_kind, rq_oversize, ai_cog_loaded, ai_response, bot_msgs,
                 edit_outcome, rq_outcome>>

PlaceholderExists == bot_msgs[1].exists

\* EmbedFormatter.send_with_auto_delete(channel, embed, delete_after): the
\* message lists it can leave; a send that raises is caught and sends nothing
send_with_auto_delete(msgs, content, delete_after) ==
  {Append(msgs, Msg("channel", content, delete_after > 0)), msgs}

\* "if not ai_response": _handle_question edits the placeholder into the
\* error (falling back to a channel message), _handle_image_analysis sends
\* the error to the channel and leaves the placeholder alone
DeliverUnavailable ==
  /\ rq_pc = "deliver"
  /\ ai_response = "empty"
  /\ IF rq_kind = "keyword_text"
     THEN \/ /\ PlaceholderExists
             /\ bot_msgs' = [bot_msgs EXCEPT ![1].content = "error",
                                             ![1].delete_scheduled = TRUE]
          \/ bot_msgs' \in send_with_auto_delete(bot_msgs, "error", AUTO_DELETE_DELAY)
     ELSE bot_msgs' \in send_with_auto_delete(bot_msgs, "error", AUTO_DELETE_DELAY)
  /\ rq_pc' = "done"
  /\ rq_outcome' = "empty"
  /\ UNCHANGED <<rq_kind, rq_oversize, ai_cog_loaded, ai_response, edit_outcome>>

\* placeholder_message.edit(embed = the answer) succeeded: the deletion of
\* the placeholder is scheduled
EditPlaceholder ==
  /\ rq_pc = "deliver"
  /\ ai_response \in {"short", "long"}
  /\ PlaceholderExists
  /\ bot_msgs' = [bot_msgs EXCEPT ![1].content = "answer",
                                  ![1].delete_scheduled = TRUE]
  /\ edit_outcome' = "edited"
  /\ rq_pc' = "record"
  /\ UNCHANGED <<rq_kind, rq_oversize, ai_cog_loaded, ai_response, rq_outcome>>

\* the edit raised NotFound (the placeholder is gone) or HTTPException (the
\* edit was rejected): message.reply with the answer; a reply that raises
\* leads to the except branch
EditFailsFallback ==
  /\ rq_pc = "deliver"
  /\ ai_response \in {"short", "long"}
  /\ \/ /\ bot_msgs' = Append(bot_msgs, Msg("reply", "answer", TRUE))
        /\ edit_outcome' = "fallback_sent"
        /\ rq_pc' = "record"
     \/ /\ edit_outcome' = "fallback_failed"
        /\ rq_pc' = "failed"
        /\ UNCHANGED bot_msgs
  /\ UNCHANGED <<rq_kind, rq_oversize, ai_cog_loaded, ai_response, rq_outcome>>

\* database.record_qa returned
RecordQA ==
  /\ rq_pc = "record"
  /\ rq_pc' = "done"
  /\ rq_outcome' = "answered"
  /\ UNCHANGED <<rq_kind, rq_oversize, ai_cog_loaded, ai_response, bot_msgs,
                 edit_outcome>>

\* database.record_qa re-raised the database error
RecordQAFails ==
  /\ rq_pc = "record"
  /\ rq_pc' = "failed"
  /\ db_failed' = db_failed \cup {"record_qa"}
  /\ UNCHANGED <<rq_kind, rq_oversize, ai_cog_loaded, ai_response, bot_msgs,
                 edit_outcome, rq_outcome>>

\* "except Exception": an error embed to the channel, then database.log_error
HandleException ==
  /\ rq_pc = "failed"
  /\ bot_msgs' \in send_with_auto_delete(bot_msgs, "error", AUTO_DELETE_DELAY)
  /\ rq_pc' = "done"
  /\ rq_outcome' = "raised"
  /\ UNCHANGED <<rq_kind, rq_oversize, ai_cog_loaded, ai_response, edit_outcome>>

\* a user or a moderator deletes the placeholder while the request runs
PlaceholderDeleted ==
  /\ rq_pc \in {"placed", "triggered", "deliver"}
  /\ PlaceholderExists
  /\ bot_msgs' = [bot_msgs EXCEPT ![1].exists = FALSE]
  /\ UNCHANGED <<rq_kind, rq_pc, rq_oversize, ai_cog_loaded, ai_response,
                 edit_outcome, rq_outcome>>

-----------------------------------------------------------------------------
(* EmbedFormatter.send_with_auto_delete and auto_delete_message, one call.
   The sends and the delete are calls to the chat platform and can raise. *)

\* the delete_after arguments of the model: none, short, the default
DeleteDelays == {0, 1, AUTO_DELETE_DELAY}

sendArgs == <<snd_target, snd_response_done, snd_ephemeral, snd_delete_after>>

\* target.response.send_message: an ephemeral response has no message
\* object and the call returns None
SendInitialResponse ==
  /\ snd_pc = "start"
  /\ snd_target = "interaction"
  /\ ~snd_response_done
  /\ snd_visible' = IF snd_ephemeral THEN "ephemeral" ELSE "public"
  /\ IF snd_ephemeral
     THEN snd_pc' = "returned" /\ snd_return' = "None"
     ELSE snd_pc' = "responded" /\ UNCHANGED snd_return
  /\ UNCHANGED <<sendArgs, del_task>>

\* target.original_response()
FetchOriginalResponse ==
  /\ snd_pc = "responded"
  /\ snd_pc' = "have_message"
  /\ UNCHANGED <<sendArgs, snd_visible, snd_return, del_task>>

\* target.followup.send(..., ephemeral=ephemeral, wait=True)
SendFollowup ==
  /\ snd_pc = "start"
  /\ snd_target = "interaction"
  /\ snd_response_done
  /\ snd_visible' = IF snd_ephemeral THEN "ephemeral" ELSE "public"
  /\ snd_pc' = "have_message"
  /\ UNCHANGED <<sendArgs, snd_return, del_task>>

\* target.send(content=content, embed=embed): a channel message is public
SendToChannel ==
  /\ snd_pc = "start"
  /\ snd_target = "channel"
  /\ snd_visible' = "public"
  /\ snd_pc' = "have_message"
  /\ UNCHANGED <<sendArgs, snd_return, del_task>>

\* a send, or original_response, raised Forbidden or HTTPException: the
\* except returns None
SendRaises ==
  /\ snd_pc \in {"start", "responded"}
  /\ snd_pc' = "returned"
  /\ snd_return' = "None"
  /\ UNCHANGED <<sendArgs, snd_visible, del_task>>

\* the variant of ScheduleAndReturn that does not look at ephemeral
ScheduleIgnoringEphemeral ==
  /\ snd_pc = "have_message"
  /\ del_task' = IF snd_delete_after > 0 THEN "sleeping" ELSE del_task
  /\ snd_return' = "message"
  /\ snd_pc' = "returned"
  /\ UNCHANGED <<sendArgs, snd_visible>>

\* "if not ephemeral and delete_after > 0 and message": create the
\* auto_delete_message task; return message
ScheduleAndReturn ==
  /\ snd_pc = "have_message"
  /\ del_task' = IF ~snd_ephemeral /\ snd_delete_after > 0
                 THEN "sleeping" ELSE del_task
  /\ snd_return' = "message"
  /\ snd_pc' = "returned"
  /\ UNCHANGED <<sendArgs, snd_visible>>

\* the variant of auto_delete_message that tries again after a failed delete
AutoDeleteRetries ==
  /\ del_task \in {"sleeping", "delete_failed"}
  /\ \/ /\ snd_visible # "deleted"
        /\ snd_visible' = "deleted"
        /\ del_task' = "deleted"
     \/ /\ del_task' = "delete_failed"
        /\ UNCHANGED snd_visible
  /\ UNCHANGED <<sendArgs, snd_pc, snd_return>>

\* auto_delete_message after its sleep: message.delete() deletes the message,
\* or raises NotFound, Forbidden or HTTPException, which the except absorbs
auto_delete_message ==
  /\ del_task = "sleeping"
  /\ \/ /\ snd_visible # "deleted"
        /\ snd_visible' = "deleted"
        /\ del_task' = "deleted"
     \/ /\ del_task' = "delete_failed"
        /\ UNCHANGED snd_visible
  /\ UNCHANGED <<sendArgs, snd_pc, snd_return>>

\* a user deletes the public message, as the view's delete control does
UserDeletesMessage ==
  /\ snd_visible = "public"
  /\ snd_pc \in {"have_message", "returned"}
  /\ snd_visible' = "deleted"
  /\ UNCHANGED <<sendArgs, snd_pc, snd_return, del_task>>

-----------------------------------------------------------------------------
(* The listeners on_message and on_message_edit, with the order of their
   evaluations and the counter increments they spawn. *)

\* the create_task(_increment_keyword_trigger(...)) calls of one run of
\* _contains_trigger_keywords: at most one, for the first matching pattern
SpawnedBy(text) ==
  LET run == MatchRun(text) IN
  IF run.spawned = {} THEN <<>> ELSE <<CHOOSE p \in run.spawned : TRUE>>

\* what on_message evaluates and calls, in order
OnMessageLog(message) ==
  IF ~_should_process_message(message)
  THEN <<"shouldProcess:reject">>
  ELSE <<"shouldProcess:accept", "matchesKeyword">>
         \o (IF _contains_trigger_keywords(message.content)
             THEN <<"dispatch:keyword">> ELSE <<>>)
         \o (IF message.attachments # <<>>
             THEN <<"shouldAnalyzeImage">> ELSE <<>>)
         \o (IF message.attachments # <<>> /\ _should_analyze_image(message)
             THEN <<"dispatch:image">> ELSE <<>>)

OnMessageSpawned(message) ==
  IF ~_should_process_message(message) THEN <<>>
  ELSE SpawnedBy(message.content)

eventFrame == <<compiled_patterns, keyword_patterns, AUTO_REPLY_ENABLED,
                KEYWORD_TRIGGER_ENABLED, MONITOR_CHANNELS, kwVars>>

\* the messages of the events: two ids, one channel, with and without an
\* image attachment
EventMessages ==
  [id : {1, 2}, author_bot : BOOLEAN, content : EventTexts,
   attachments : {<<>>, <<PngError>>}, channel_id : {1}]

\* a message is created
CreateEvent ==
  \E message \in EventMessages :
    /\ on_message(message)
    /\ ev_trace' = [kind |-> "create", content |-> message.content,
                    log |-> OnMessageLog(message),
                    spawned |-> OnMessageSpawned(message)]
    /\ UNCHANGED eventFrame

\* a message is edited: the two runs of _contains_trigger_keywords of
\* on_message_edit, the second only when the first returned false, then
\* on_message
EditEvent ==
  \E before_content \in EventTexts, after \in EventMessages :
    LET before_hit == _contains_trigger_keywords(before_content)
        after_hit == _contains_trigger_keywords(after.content)
        pre_log == <<"matchesKeyword:before">>
                     \o (IF ~before_hit THEN <<"matchesKeyword:after">>
                         ELSE <<>>)
        pre_spawned == SpawnedBy(before_content)
                         \o (IF ~before_hit THEN SpawnedBy(after.content)
                             ELSE <<>>)
    IN /\ IF ~before_hit /\ after_hit
          THEN /\ on_message(after)
               /\ ev_trace' = [kind |-> "edit", content |-> after.content,
                               log |-> pre_log \o OnMessageLog(after),
                               spawned |-> pre_spawned
                                             \o OnMessageSpawned(after)]
          ELSE /\ last_event' = [id |-> after.id, handlers |-> {}]
               /\ ev_trace' = [kind |-> "edit", content |-> after.content,
                               log |-> pre_log, spawned |-> pre_spawned]
               /\ UNCHANGED <<processed_messages, dispatched>>
       /\ UNCHANGED eventFrame

-----------------------------------------------------------------------------
(* Concurrent reloads.  _load_dynamic_keywords suspends once, at the await of
   the store query; from the resumption to its end it has no await, and
   _contains_trigger_keywords has none at all. *)

\* the calls: the task __init__ creates, cog_load, and the reload at the end
\* of two keyword commands
ReloadTasks == {"startup", "cog_load", "command1", "command2"}
CommandTasks == {"command1", "command2"}

NotStarted == [pc |-> "unstarted", store |-> <<>>, listed |-> FALSE]

\* the call begins and suspends at "await database.get_regex_keywords"
StartReload(t) ==
  /\ t \in {"startup", "cog_load"}
  /\ reload_tasks[t].pc = "unstarted"
  /\ reload_tasks' = [reload_tasks EXCEPT ![t].pc = "awaiting"]
  /\ UNCHANGED <<kw_store, patternVars, kw_event>>

\* the store answers the query of the call, or raises
StoreAnswers(t) ==
  /\ reload_tasks[t].pc = "awaiting"
  /\ \E listed \in BOOLEAN :
       reload_tasks' = [reload_tasks EXCEPT
                          ![t] = [pc |-> "resumable",
                                  store |-> IF listed THEN kw_store ELSE <<>>,
                                  listed |-> listed]]
  /\ UNCHANGED <<kw_store, patternVars, kw_event>>

\* the variant of ResumeReload that suspends between the assignment of
\* keyword_patterns and the assignment of compiled_patterns
ResumeReloadTorn(t) ==
  /\ reload_tasks[t].pc = "resumable"
  /\ LET dyn == get_regex_keywords(reload_tasks[t].store, TRUE) IN
       /\ dynamic_keyword_patterns' = dyn
       /\ keyword_patterns' = default_keyword_patterns \o dyn
       /\ UNCHANGED compiled_patterns
  /\ reload_tasks' = [reload_tasks EXCEPT ![t].pc = "done"]
  /\ UNCHANGED <<kw_store, kw_event>>

\* the call resumes with what its query read and runs to its end
ResumeReload(t) ==
  /\ reload_tasks[t].pc = "resumable"
  /\ _load_dynamic_keywords(reload_tasks[t].store, reload_tasks[t].listed)
  /\ reload_tasks' = [reload_tasks EXCEPT ![t].pc = "done"]
  /\ UNCHANGED <<kw_store, kw_event>>

\* a keyword command, after cog_load: the store call, and on success the
\* reload begins
CommandStoreCall(t, r, success) ==
  /\ t \in CommandTasks
  /\ reload_tasks["cog_load"].pc = "done"
  /\ reload_tasks[t].pc = "unstarted"
  /\ kw_store' = r.store
  /\ reload_tasks' = IF success
                     THEN [reload_tasks EXCEPT ![t].pc = "awaiting"]
                     ELSE reload_tasks
  /\ UNCHANGED <<patternVars, kw_event>>

AddCommand(t) ==
  \E pattern \in ValidDynamic :
    \E r \in add_regex_keyword(kw_store, pattern) :
      CommandStoreCall(t, r, r.success)

RemoveCommand(t) ==
  \E pattern \in ValidDynamic :
    \E r \in remove_regex_keyword(kw_store, pattern) :
      CommandStoreCall(t, r, r.success)

ToggleCommand(t) ==
  \E pattern \in ValidDynamic :
    \E r \in toggle_regex_keyword(kw_store, pattern) :
      CommandStoreCall(t, r, r.new_state # "none")

\* a message is matched while reloads are in flight
MatchDuringReload ==
  /\ reload_tasks["cog_load"].pc = "done"
  /\ \E text \in {<<"x">>, <<"error">>, <<"sillytavern">>} :
       kw_event' = [op |-> "match", text |-> text, run |-> MatchRun(text)]
  /\ UNCHANGED <<kw_store, patternVars, reload_tasks>>

-----------------------------------------------------------------------------
(* PaginationView.  The view is attached to a message only when it has more
   than one page; a button callback runs for whoever presses the button. *)

\* the most pages a view of the model has
MaxPages == 4

Users == {1, 2, 3}
NoUser == 0

\* the button decorators: first and previous start disabled
InitialButtons ==
  [first_page |-> TRUE, previous_page |-> TRUE, delete_message |-> FALSE,
   next_page |-> FALSE, last_page |-> FALSE]

\* the variant of update_buttons that takes max_pages for the last page
UpdateButtonsPastEnd(btns, page) ==
  IF max_pages <= 1 THEN btns
  ELSE [btns EXCEPT !.first_page = (page = 0),
                    !.previous_page = (page = 0),
                    !.next_page = (page = max_pages),
                    !.last_page = (page = max_pages)]

update_buttons(btns, page) ==
  IF max_pages <= 1 THEN btns
  ELSE [btns EXCEPT !.first_page = (page = 0),
                    !.previous_page = (page = 0),
                    !.next_page = (page = max_pages - 1),
                    !.last_page = (page = max_pages - 1)]

\* a component interaction reaches the view: the message is there and the
\* view has not timed out
CanInteract == view_message = "shown" /\ ~view_finished

Navigate(name, user, page) ==
  /\ CanInteract
  /\ current_page' = page
  /\ disabled' = update_buttons(disabled, page)
  /\ view_event' = [action |-> name, user |-> user, from |-> current_page]
  /\ UNCHANGED <<max_pages, view_message, view_finished, requester>>

first_page == \E user \in Users : Navigate("first_page", user, 0)

previous_page ==
  \E user \in Users :
    Navigate("previous_page", user,
             IF current_page > 0 THEN current_page - 1 ELSE current_page)

\* the variant of next_page without the test of the last page
NextPageUnclamped ==
  \E user \in Users : Navigate("next_page", user, current_page + 1)

next_page ==
  \E user \in Users :
    Navigate("next_page", user,
             IF current_page < max_pages - 1 THEN current_page + 1
             ELSE current_page)

last_page == \E user \in Users : Navigate("last_page", user, max_pages - 1)

\* delete_message: interaction.delete_original_response()
delete_message ==
  \E user \in Users :
    /\ CanInteract
    /\ view_message' = "deleted"
    /\ view_event' = [action |-> "delete_message", user |-> user,
                      from |-> current_page]
    /\ UNCHANGED <<max_pages, current_page, disabled, view_finished, requester>>

\* on_timeout: every button is disabled; the message stays
on_timeout ==
  /\ ~view_finished
  /\ view_finished' = TRUE
  /\ disabled' = [b \in DOMAIN disabled |-> TRUE]
  /\ view_event' = [action |-> "on_timeout", user |-> NoUser,
                    from |-> current_page]
  /\ UNCHANGED <<max_pages, current_page, view_message, requester>>

-----------------------------------------------------------------------------
(* APIErrorMonitor.  An error message is a sequence of words; a keyword is a
   sequence of lower-case words and "keyword in error_lower" is: the words
   of the keyword occur next to each other in the lowered message. *)

\* str.lower() on the words of the model
Lower(w) ==
  CASE w = "Connection" -> "connection"
    [] w = "HTTP" -> "http"
    [] w = "Internal" -> "internal"
    [] w = "Server" -> "server"
    [] w = "Error" -> "error"
    [] w = "Unauthorized" -> "unauthorized"
    [] w = "Bad" -> "bad"
    [] w = "Request" -> "request"
    [] w = "JSON" -> "json"
    [] w = "Something" -> "something"
    [] OTHER -> w

LowerAll(message) == [i \in 1..Len(message) |-> Lower(message[i])]

\* keyword in error_lower
KeywordIn(keyword, error_lower) ==
  \E i \in 1..(Len(error_lower) - Len(keyword) + 1) :
     SubSeq(error_lower, i, i + Len(keyword) - 1) = keyword

CriticalKeywords ==
  {<<"connection", "refused">>, <<"connection", "timeout">>,
   <<"network", "unreachable">>, <<"500">>, <<"502">>, <<"503">>, <<"504">>,
   <<"authentication", "failed">>, <<"unauthorized">>,
   <<"invalid", "api", "key">>, <<"quota", "exceeded">>,
   <<"rate", "limit", "exceeded">>, <<"service", "unavailable">>,
   <<"internal", "server", "error">>}

HighKeywords ==
  {<<"400">>, <<"bad", "request">>, <<"invalid", "request">>, <<"401">>,
   <<"403">>, <<"forbidden">>, <<"429">>, <<"too", "many", "requests">>}

MediumKeywords ==
  {<<"timeout">>, <<"connection", "error">>, <<"json", "decode">>,
   <<"parse", "error">>, <<"context", "length">>, <<"content", "filter">>}

classify_error_severity(error_message) ==
  LET error_lower == LowerAll(error_message) IN
  IF \E keyword \in CriticalKeywords : KeywordIn(keyword, error_lower)
  THEN "critical"
  ELSE IF \E keyword \in HighKeywords : KeywordIn(keyword, error_lower)
  THEN "high"
  ELSE IF \E keyword \in MediumKeywords : KeywordIn(keyword, error_lower)
  THEN "medium"
  ELSE "low"

\* the table of test_api_error_monitor: message and expected severity
test_cases ==
  {[message |-> <<"Connection", "refused">>, expected |-> "critical"],
   [message |-> <<"HTTP", "500", "Internal", "Server", "Error">>,
    expected |-> "critical"],
   [message |-> <<"HTTP", "401", "Unauthorized">>, expected |-> "high"],
   [message |-> <<"HTTP", "400", "Bad", "Request">>, expected |-> "high"],
   [message |-> <<"JSON", "decode", "error">>, expected |-> "medium"],
   [message |-> <<"Something", "went", "wrong">>, expected |-> "low"]}

\* the messages classified: the table's, and every message of one or two
\* words of ErrorWords
ErrorWords ==
  {"Connection", "refused", "HTTP", "500", "401", "Unauthorized", "400",
   "JSON", "decode", "timeout", "Something"}
ErrorMessages ==
  {tc.message : tc \in test_cases}
    \cup {<<w>> : w \in ErrorWords} \cup {<<v, w>> : v, w \in ErrorWords}

Classify ==
  /\ cl_severity = "pending"
  /\ cl_severity' = classify_error_severity(cl_message)
  /\ UNCHANGED cl_message

\* self.error_thresholds
error_thresholds ==
  [critical |-> 1, high |-> 3, medium |-> 5, low |-> 10]

\* self.notification_cooldown
notification_cooldown == 300

\* timedelta.seconds: the seconds field of a non-negative difference, whose
\* whole days are in the days field
SecondsPerDay == 86400
TimedeltaSeconds(delta) == delta % SecondsPerDay

\* the record_api_error calls that can be in flight together
MonitorCalls == {1, 2}

\* the errors recorded in one behaviour, and the clock advances
MaxErrors == 4
MaxTicks == 3
ClockSteps == {100, notification_cooldown, SecondsPerDay}

monitorFixed == <<mon_severity>>

\* time passes
ClockAdvances ==
  /\ mon_ticks < MaxTicks
  /\ \E step \in ClockSteps : mon_clock' = mon_clock + step
  /\ mon_ticks' = mon_ticks + 1
  /\ UNCHANGED <<monitorFixed, error_counts, last_notifications, mon_calls,
                 mon_sent, mon_event>>

\* record_api_error up to "await database.log_api_error": the count of the
\* key is incremented
RecordStart(c) ==
  /\ mon_calls[c].pc = "idle"
  /\ error_counts < MaxErrors
  /\ error_counts' = error_counts + 1
  /\ mon_calls' = [mon_calls EXCEPT ![c].pc = "logging"]
  /\ UNCHANGED <<monitorFixed, mon_clock, mon_ticks, last_notifications,
                 mon_sent, mon_event>>

\* log_api_error raises: the except of record_api_error ends the call
LogRaises(c) ==
  /\ mon_calls[c].pc = "logging"
  /\ mon_calls' = [mon_calls EXCEPT ![c].pc = "idle"]
  /\ UNCHANGED <<monitorFixed, mon_clock, mon_ticks, error_counts,
                 last_notifications, mon_sent, mon_event>>

\* "last_notification is None or (now - last_notification).seconds >=
\* self.notification_cooldown"
CooldownOver(now, last_notification) ==
  \A last \in last_notification :
     TimedeltaSeconds(now - last) >= notification_cooldown

\* log_api_error returns; _check_notification_threshold up to
\* "await self._send_admin_notification"
CheckThreshold(c) ==
  /\ mon_calls[c].pc = "logging"
  /\ LET current_count == error_counts
         threshold == error_thresholds[mon_severity]
         should_notify == mon_severity = "critical" \/ current_count >= threshold
         now == mon_clock
     IN IF ~should_notify
        THEN /\ mon_calls' = [mon_calls EXCEPT ![c].pc = "idle"]
             /\ mon_event' = [decision |-> "below"]
        ELSE IF CooldownOver(now, last_notifications)
        THEN /\ mon_calls' = [mon_calls EXCEPT ![c] = [pc |-> "sending",
                                                      now |-> now]]
             /\ mon_event' = [decision |-> "notify", now |-> now,
                              last |-> last_notifications]
        ELSE /\ mon_calls' = [mon_calls EXCEPT ![c].pc = "idle"]
             /\ mon_event' = [decision |-> "cooldown", now |-> now,
                              last |-> last_notifications]
  /\ UNCHANGED <<monitorFixed, mon_clock, mon_ticks, error_counts,
                 last_notifications, mon_sent>>

\* _send_admin_notification returns, having reached an admin or not (it
\* absorbs its own exceptions); then last_notifications[error_key] = now
NotificationSent(c) ==
  /\ mon_calls[c].pc = "sending"
  /\ \E delivered \in BOOLEAN :
       mon_sent' = IF delivered THEN Append(mon_sent, mon_calls[c].now)
                   ELSE mon_sent
  /\ last_notifications' = {mon_calls[c].now}
  /\ mon_calls' = [mon_calls EXCEPT ![c].pc = "idle"]
  /\ UNCHANGED <<monitorFixed, mon_clock, mon_ticks, error_counts, mon_event>>

-----------------------------------------------------------------------------
(* The specifications *)

TriggerIdle ==
  /\ processed_messages = {}
  /\ keyword_patterns = default_keyword_patterns
  /\ compiled_patterns = default_keyword_patterns
  /\ AUTO_REPLY_ENABLED = TRUE
  /\ KEYWORD_TRIGGER_ENABLED = TRUE
  /\ MONITOR_CHANNELS = {}
  /\ dispatched = {}
  /\ last_event = NoEvent

ShouldIdle == sp_message = NoMessage /\ sp_result = "idle"

DeliveryIdle ==
  /\ rq_kind = "none"
  /\ rq_pc = "idle"
  /\ rq_oversize = FALSE
  /\ ai_cog_loaded = TRUE
  /\ ai_response = "none"
  /\ bot_msgs = <<>>
  /\ edit_outcome = "none"
  /\ rq_outcome = "none"
  /\ db_failed = {}

SendIdle ==
  /\ snd_target = "none"
  /\ snd_response_done = FALSE
  /\ snd_ephemeral = FALSE
  /\ snd_delete_after = 0
  /\ snd_pc = "idle"
  /\ snd_visible = "none"
  /\ snd_return = "pending"
  /\ del_task = "none"

ReloadIdle == reload_tasks = <<>>

NoTrace == [kind |-> "none"]

EventsIdle == ev_trace = NoTrace

SplitIdle ==
  /\ hs_size = 0
  /\ hs_paragraph = <<>>
  /\ hs_pages = <<>>
  /\ hs_pc = "idle"

ClassifyIdle == cl_message = <<>> /\ cl_severity = "idle"

NoDecision == [decision |-> "none"]

MonitorIdle ==
  /\ mon_clock = 0
  /\ mon_ticks = 0
  /\ mon_severity = "none"
  /\ error_counts = 0
  /\ last_notifications = {}
  /\ mon_calls = <<>>
  /\ mon_sent = <<>>
  /\ mon_event = NoDecision

LaterIdle ==
  ReloadIdle /\ EventsIdle /\ SplitIdle /\ ClassifyIdle /\ MonitorIdle

NoKwEvent == [op |-> "none"]

KeywordsIdle ==
  /\ kw_store = <<>>
  /\ dynamic_keyword_patterns = <<>>
  /\ kw_event = NoKwEvent

ViewIdle ==
  /\ max_pages = 0
  /\ current_page = 0
  /\ disabled = InitialButtons
  /\ view_message = "none"
  /\ view_finished = FALSE
  /\ requester = NoUser
  /\ view_event = [action |-> "none", user |-> NoUser, from |-> 0]

PagesIdle ==
  /\ answer = <<>>
  /\ page_size = DEFAULT_PAGE_SIZE
  /\ pages = <<>>
  /\ pages_state = "idle"

\* ---- the trigger engine, after cog_load with an empty keyword store ----
InitTrigger ==
  /\ processed_messages = {}
  /\ keyword_patterns = default_keyword_patterns
  /\ compiled_patterns = default_keyword_patterns
  /\ AUTO_REPLY_ENABLED = TRUE
  /\ KEYWORD_TRIGGER_ENABLED = TRUE
  /\ MONITOR_CHANNELS \in {{}, {1}}
  /\ dispatched = {}
  /\ last_event = NoEvent
  /\ ShouldIdle
  /\ PagesIdle
  /\ DeliveryIdle
  /\ ViewIdle
  /\ KeywordsIdle
  /\ SendIdle
  /\ LaterIdle

NextTrigger ==
  \/ MessageCreate /\ UNCHANGED <<shouldVars, pageVars, deliveryVars, viewVars, kwVars, sendVars, laterVars>>
  \/ MessageEdit /\ UNCHANGED <<shouldVars, pageVars, deliveryVars, viewVars, kwVars, sendVars, laterVars>>
  \/ toggle_auto_reply /\ UNCHANGED <<shouldVars, pageVars, deliveryVars, viewVars, kwVars, sendVars, laterVars>>
  \/ toggle_keyword_trigger /\ UNCHANGED <<shouldVars, pageVars, deliveryVars, viewVars, kwVars, sendVars, laterVars>>

SpecTrigger == InitTrigger /\ [][NextTrigger]_vars

\* ---- _should_process_message applied to any message, in any cache and
\*      configuration the program can be in ----

\* the texts it is applied to: at most one word, or a command with a keyword
ShouldTexts ==
  {<<>>} \cup {<<w>> : w \in Words} \cup {<<"!", "sillytavern">>}

InitShouldProcess ==
  /\ processed_messages \in {c \in SUBSET MsgIds : Cardinality(c) <= cache_max_size}
  /\ keyword_patterns = default_keyword_patterns
  /\ compiled_patterns = default_keyword_patterns
  /\ AUTO_REPLY_ENABLED \in BOOLEAN
  /\ KEYWORD_TRIGGER_ENABLED \in BOOLEAN
  /\ MONITOR_CHANNELS \in {{}, {1}}
  /\ dispatched = {}
  /\ last_event = NoEvent
  /\ sp_message \in Messages(MsgIds, ShouldTexts)
  /\ sp_result = "pending"
  /\ PagesIdle
  /\ DeliveryIdle
  /\ ViewIdle
  /\ KeywordsIdle
  /\ SendIdle
  /\ LaterIdle

EvaluateShouldProcess ==
  /\ sp_result = "pending"
  /\ sp_result' = IF _should_process_message(sp_message) THEN "accept" ELSE "reject"
  /\ UNCHANGED <<sp_message, triggerVars, pageVars, deliveryVars, viewVars, kwVars, sendVars, laterVars>>

NextShouldProcess == EvaluateShouldProcess

SpecShouldProcess == InitShouldProcess /\ [][NextShouldProcess]_vars

\* ---- _create_answer_pages applied to any answer ----
InitPages ==
  /\ answer \in Answers
  /\ page_size = DEFAULT_PAGE_SIZE
  /\ pages = <<>>
  /\ pages_state = "pending"
  /\ TriggerIdle
  /\ ShouldIdle
  /\ DeliveryIdle
  /\ ViewIdle
  /\ KeywordsIdle
  /\ SendIdle
  /\ LaterIdle

NextPages == Paginate /\ UNCHANGED <<triggerVars, shouldVars, deliveryVars, viewVars, kwVars, sendVars, laterVars>>

SpecPages == InitPages /\ [][NextPages]_vars

\* ---- one request on the non-slash path ----
InitDelivery ==
  /\ rq_kind \in RequestKinds
  /\ rq_pc = "start"
  /\ rq_oversize \in (IF rq_kind = "keyword_text" THEN {FALSE} ELSE BOOLEAN)
  /\ ai_cog_loaded \in BOOLEAN
  /\ ai_response = "none"
  /\ bot_msgs = <<>>
  /\ edit_outcome = "none"
  /\ rq_outcome = "none"
  /\ db_failed = {}
  /\ TriggerIdle
  /\ ShouldIdle
  /\ PagesIdle
  /\ ViewIdle
  /\ KeywordsIdle
  /\ SendIdle
  /\ LaterIdle

notDeliveryVars == <<triggerVars, shouldVars, pageVars, viewVars, kwVars, sendVars, laterVars>>

NextDelivery ==
  \/ PlaceholderSent /\ UNCHANGED <<notDeliveryVars, db_failed>>
  \/ RecordKeywordTrigger /\ UNCHANGED notDeliveryVars
  \/ IncrementKeywordTriggerFails /\ UNCHANGED notDeliveryVars
  \/ PlaceholderSendFails /\ UNCHANGED <<notDeliveryVars, db_failed>>
  \/ CogMissing /\ UNCHANGED <<notDeliveryVars, db_failed>>
  \/ RejectOversize /\ UNCHANGED <<notDeliveryVars, db_failed>>
  \/ AiReturns /\ UNCHANGED <<notDeliveryVars, db_failed>>
  \/ AiRaises /\ UNCHANGED <<notDeliveryVars, db_failed>>
  \/ DeliverUnavailable /\ UNCHANGED <<notDeliveryVars, db_failed>>
  \/ EditPlaceholder /\ UNCHANGED <<notDeliveryVars, db_failed>>
  \/ EditFailsFallback /\ UNCHANGED <<notDeliveryVars, db_failed>>
  \/ RecordQA /\ UNCHANGED <<notDeliveryVars, db_failed>>
  \/ RecordQAFails /\ UNCHANGED notDeliveryVars
  \/ HandleException /\ UNCHANGED <<notDeliveryVars, db_failed>>
  \/ PlaceholderDeleted /\ UNCHANGED <<notDeliveryVars, db_failed>>

SpecDelivery == InitDelivery /\ [][NextDelivery]_vars

\* ---- a PaginationView attached to the message of an answer ----
InitView ==
  /\ max_pages \in 2..MaxPages
  /\ current_page = 0
  /\ disabled = InitialButtons
  /\ view_message = "shown"
  /\ view_finished = FALSE
  /\ requester \in Users
  /\ view_event = [action |-> "none", user |-> NoUser, from |-> 0]
  /\ TriggerIdle
  /\ ShouldIdle
  /\ PagesIdle
  /\ DeliveryIdle
  /\ KeywordsIdle
  /\ SendIdle
  /\ LaterIdle

notViewVars == <<triggerVars, shouldVars, pageVars, deliveryVars, kwVars, sendVars, laterVars>>

NextView ==
  \/ first_page /\ UNCHANGED notViewVars
  \/ previous_page /\ UNCHANGED notViewVars
  \/ delete_message /\ UNCHANGED notViewVars
  \/ next_page /\ UNCHANGED notViewVars
  \/ last_page /\ UNCHANGED notViewVars
  \/ on_timeout /\ UNCHANGED notViewVars

SpecView == InitView /\ [][NextView]_vars

\* ---- keyword management: the cog right after __init__, with an empty
\*      store, in either setting of the keyword toggle ----
InitKeywords ==
  /\ processed_messages = {}
  /\ keyword_patterns = default_keyword_patterns
  /\ compiled_patterns = <<>>
  /\ AUTO_REPLY_ENABLED = TRUE
  /\ KEYWORD_TRIGGER_ENABLED \in BOOLEAN
  /\ MONITOR_CHANNELS = {}
  /\ dispatched = {}
  /\ last_event = NoEvent
  /\ kw_store = <<>>
  /\ dynamic_keyword_patterns = <<>>
  /\ kw_event = NoKwEvent
  /\ ShouldIdle
  /\ PagesIdle
  /\ DeliveryIdle
  /\ ViewIdle
  /\ SendIdle
  /\ LaterIdle

notKeywordVars == <<shouldVars, pageVars, deliveryVars, viewVars, sendVars, laterVars>>

NextKeywords ==
  \/ cog_load /\ UNCHANGED notKeywordVars
  \/ reload_keywords_cmd /\ UNCHANGED notKeywordVars
  \/ add_keyword_cmd /\ UNCHANGED notKeywordVars
  \/ remove_keyword_cmd /\ UNCHANGED notKeywordVars
  \/ toggle_keyword_cmd /\ UNCHANGED notKeywordVars
  \/ StoreCorrupted /\ UNCHANGED notKeywordVars
  \/ MatchText /\ UNCHANGED notKeywordVars

SpecKeywords == InitKeywords /\ [][NextKeywords]_vars

\* ---- send_with_auto_delete called with any arguments ----
InitSend ==
  /\ snd_target \in {"channel", "interaction"}
  /\ snd_response_done \in (IF snd_target = "interaction" THEN BOOLEAN
                            ELSE {FALSE})
  /\ snd_ephemeral \in BOOLEAN
  /\ snd_delete_after \in DeleteDelays
  /\ snd_pc = "start"
  /\ snd_visible = "none"
  /\ snd_return = "pending"
  /\ del_task = "none"
  /\ TriggerIdle
  /\ ShouldIdle
  /\ PagesIdle
  /\ DeliveryIdle
  /\ ViewIdle
  /\ KeywordsIdle
  /\ LaterIdle

notSendVars == <<triggerVars, shouldVars, pageVars, deliveryVars, viewVars,
                 kwVars, laterVars>>

NextSend ==
  \/ SendInitialResponse /\ UNCHANGED notSendVars
  \/ FetchOriginalResponse /\ UNCHANGED notSendVars
  \/ SendFollowup /\ UNCHANGED notSendVars
  \/ SendToChannel /\ UNCHANGED notSendVars
  \/ SendRaises /\ UNCHANGED notSendVars
  \/ ScheduleAndReturn /\ UNCHANGED notSendVars
  \/ auto_delete_message /\ UNCHANGED notSendVars
  \/ UserDeletesMessage /\ UNCHANGED notSendVars

SpecSend == InitSend /\ [][NextSend]_vars

\* ---- the cog right after __init__, reloads and commands interleaved ----
InitReload ==
  /\ processed_messages = {}
  /\ keyword_patterns = default_keyword_patterns
  /\ compiled_patterns = <<>>
  /\ AUTO_REPLY_ENABLED = TRUE
  /\ KEYWORD_TRIGGER_ENABLED = TRUE
  /\ MONITOR_CHANNELS = {}
  /\ dispatched = {}
  /\ last_event = NoEvent
  /\ kw_store \in {<<>>, <<[pattern |-> "error", enabled |-> TRUE]>>}
  /\ dynamic_keyword_patterns = <<>>
  /\ kw_event = NoKwEvent
  /\ reload_tasks = [t \in ReloadTasks |-> NotStarted]
  /\ ShouldIdle
  /\ PagesIdle
  /\ DeliveryIdle
  /\ ViewIdle
  /\ SendIdle
  /\ EventsIdle
  /\ SplitIdle
  /\ ClassifyIdle
  /\ MonitorIdle

notReloadVars == <<kwFrame, shouldVars, pageVars, deliveryVars, viewVars,
                   sendVars, eventVars, splitVars, classifyVars, monitorVars>>

NextReload ==
  \/ \E t \in ReloadTasks : StartReload(t) /\ UNCHANGED notReloadVars
  \/ \E t \in ReloadTasks : StoreAnswers(t) /\ UNCHANGED notReloadVars
  \/ \E t \in ReloadTasks : ResumeReload(t) /\ UNCHANGED notReloadVars
  \/ \E t \in CommandTasks : AddCommand(t) /\ UNCHANGED notReloadVars
  \/ \E t \in CommandTasks : RemoveCommand(t) /\ UNCHANGED notReloadVars
  \/ \E t \in CommandTasks : ToggleCommand(t) /\ UNCHANGED notReloadVars
  \/ MatchDuringReload /\ UNCHANGED notReloadVars

SpecReload == InitReload /\ [][NextReload]_vars

\* ---- message events after cog_load, one dynamic pattern in the store ----
InitEvents ==
  /\ processed_messages = {}
  /\ keyword_patterns = default_keyword_patterns \o <<"error">>
  /\ compiled_patterns = default_keyword_patterns \o <<"error">>
  /\ AUTO_REPLY_ENABLED = TRUE
  /\ KEYWORD_TRIGGER_ENABLED \in BOOLEAN
  /\ MONITOR_CHANNELS = {}
  /\ dispatched = {}
  /\ last_event = NoEvent
  /\ kw_store = <<[pattern |-> "error", enabled |-> TRUE]>>
  /\ dynamic_keyword_patterns = <<"error">>
  /\ kw_event = NoKwEvent
  /\ ev_trace = NoTrace
  /\ ShouldIdle
  /\ PagesIdle
  /\ DeliveryIdle
  /\ ViewIdle
  /\ SendIdle
  /\ ReloadIdle
  /\ SplitIdle
  /\ ClassifyIdle
  /\ MonitorIdle

notEventVars == <<shouldVars, pageVars, deliveryVars, viewVars, sendVars,
                  reloadVars, splitVars, classifyVars, monitorVars>>

NextEvents ==
  \/ CreateEvent /\ UNCHANGED notEventVars
  \/ EditEvent /\ UNCHANGED notEventVars

SpecEvents == InitEvents /\ [][NextEvents]_vars

\* ---- the forced-split loop entered with any page size and paragraph ----
InitSplit ==
  /\ hs_size \in PageSizes
  /\ hs_paragraph \in SplitParagraphs
  /\ hs_pages = <<>>
  /\ hs_pc = "loop"
  /\ TriggerIdle
  /\ ShouldIdle
  /\ PagesIdle
  /\ DeliveryIdle
  /\ ViewIdle
  /\ KeywordsIdle
  /\ SendIdle
  /\ ReloadIdle
  /\ EventsIdle
  /\ ClassifyIdle
  /\ MonitorIdle

notSplitVars == <<triggerVars, shouldVars, pageVars, deliveryVars, viewVars,
                  kwVars, sendVars, reloadVars, eventVars, classifyVars,
                  monitorVars>>

NextSplit ==
  \/ SplitIteration /\ UNCHANGED notSplitVars
  \/ SplitDone /\ UNCHANGED notSplitVars

SpecSplit == InitSplit /\ [][NextSplit]_vars

\* ---- classify_error_severity applied to each message ----
InitClassify ==
  /\ cl_message \in ErrorMessages
  /\ cl_severity = "pending"
  /\ TriggerIdle
  /\ ShouldIdle
  /\ PagesIdle
  /\ DeliveryIdle
  /\ ViewIdle
  /\ KeywordsIdle
  /\ SendIdle
  /\ ReloadIdle
  /\ EventsIdle
  /\ SplitIdle
  /\ MonitorIdle

notClassifyVars == <<triggerVars, shouldVars, pageVars, deliveryVars, viewVars,
                     kwVars, sendVars, reloadVars, eventVars, splitVars,
                     monitorVars>>

NextClassify == Classify /\ UNCHANGED notClassifyVars

SpecClassify == InitClassify /\ [][NextClassify]_vars

\* ---- record_api_error calls for one error key, a fresh monitor ----
InitMonitor ==
  /\ mon_clock = 0
  /\ mon_ticks = 0
  /\ mon_severity \in {"critical", "high"}
  /\ error_counts = 0
  /\ last_notifications = {}
  /\ mon_calls = [c \in MonitorCalls |-> [pc |-> "idle", now |-> 0]]
  /\ mon_sent = <<>>
  /\ mon_event = NoDecision
  /\ TriggerIdle
  /\ ShouldIdle
  /\ PagesIdle
  /\ DeliveryIdle
  /\ ViewIdle
  /\ KeywordsIdle
  /\ SendIdle
  /\ ReloadIdle
  /\ EventsIdle
  /\ SplitIdle
  /\ ClassifyIdle

notMonitorVars == <<triggerVars, shouldVars, pageVars, deliveryVars, viewVars,
                    kwVars, sendVars, reloadVars, eventVars, splitVars,
                    classifyVars>>

NextMonitor ==
  \/ ClockAdvances /\ UNCHANGED notMonitorVars
  \/ \E c \in MonitorCalls : RecordStart(c) /\ UNCHANGED notMonitorVars
  \/ \E c \in MonitorCalls : LogRaises(c) /\ UNCHANGED notMonitorVars
  \/ \E c \in MonitorCalls : CheckThreshold(c) /\ UNCHANGED notMonitorVars
  \/ \E c \in MonitorCalls : NotificationSent(c) /\ UNCHANGED notMonitorVars

SpecMonitor == InitMonitor /\ [][NextMonitor]_vars

-----------------------------------------------------------------------------
(* The claims *)

\* C1: an on_message event invokes at most one of the keyword handler and
\* the image handler for its message.
C1_AtMostOneDelegation == Cardinality(last_event.handlers) <= 1

\* C2: every page _create_answer_pages returns is at most page_size long.
C2_PagesWithinPageSize ==
  pages_state = "returned"
     => \A i \in 1..Len(pages) : Len(pages[i]) <= page_size

\* the bot's messages whose content is final: an answer or an error
FinalMessages ==
  {i \in 1..Len(bot_msgs) : bot_msgs[i].content \in {"answer", "error"}}

\* C3: when the collaborator returned nothing or processing raised, the
\* finished request leaves no placeholder that still says "thinking".
C3_PlaceholderResolved ==
  (rq_pc = "done" /\ rq_outcome \in {"empty", "raised"})
     => \A i \in 1..Len(bot_msgs) :
           ~(bot_msgs[i].role = "placeholder" /\ bot_msgs[i].exists
               /\ bot_msgs[i].content = "thinking")

\* C4: once the placeholder was edited into the answer, or the fallback
\* reply was sent, the finished request has exactly one final message.
C4_ExactlyOneFinalMessage ==
  (rq_pc = "done" /\ edit_outcome \in {"edited", "fallback_sent"})
     => Cardinality(FinalMessages) = 1

\* C5: an event never hands a handler a message id that an earlier event
\* already dispatched.
C5_DispatchedAtMostOnce ==
  [][last_event'.handlers # {} => last_event'.id \notin dispatched]_vars

\* C6: a message whose id is in the processed cache is rejected, whatever its
\* author, content, attachments, channel and the toggles.
C6_ProcessedRejected ==
  (sp_result \in {"accept", "reject"} /\ sp_message.id \in processed_messages)
     => sp_result = "reject"

\* a cached message that every other test would let through was rejected
C6_Witness ==
  /\ sp_result = "reject"
  /\ sp_message.id \in processed_messages
  /\ ShouldProcessNoDedup(sp_message)

\* C7: after every _mark_message_processed the cache holds at most
\* cache_max_size ids.
C7_CacheBounded == Cardinality(processed_messages) <= cache_max_size

\* the mark that evicts has just completed: one id more than the maximum
\* was dispatched and half the maximum is left
C7_Witness ==
  /\ last_event.handlers # {}
  /\ Cardinality(dispatched) = cache_max_size + 1
  /\ Cardinality(processed_messages) = cache_max_size \div 2

\* C8: right after an event marked its message processed, the id of that
\* message is in the cache, also when the mark evicted.
C8_LastMarkedPresent ==
  last_event.handlers # {} => last_event.id \in processed_messages

\* C9: every message with final content that the finished request leaves in
\* the channel has a deletion scheduled.
C9_FinalMessagesScheduled ==
  rq_pc = "done"
     => \A i \in FinalMessages :
           bot_msgs[i].exists => bot_msgs[i].delete_scheduled

\* C10: an interaction of a user other than the requester changes neither
\* the cursor, nor the buttons, nor the message.
C10_OnlyRequesterActs ==
  [][view_event'.user \notin {NoUser, requester}
       => UNCHANGED <<current_page, disabled, view_message>>]_vars

\* C11: after a reload that read the store, the active patterns are the
\* built-in ones followed by every enabled dynamic pattern that compiles.
C11_ReloadSkipsOnlyMalformed ==
  (kw_event.op = "reload" /\ kw_event.outcome = "done" /\ kw_event.listed)
    => compiled_patterns =
         default_keyword_patterns
           \o SelectSeq(get_regex_keywords(kw_store, TRUE), Compiles)

\* C12: a request whose answer was delivered and in which a persistence call
\* failed shows no error message.
C12_PersistenceFailureSilent ==
  (rq_pc = "done" /\ db_failed # {}
     /\ edit_outcome \in {"edited", "fallback_sent"})
    => \A i \in 1..Len(bot_msgs) : bot_msgs[i].content # "error"

StartsWithEllipsis(s) == Len(s) >= 3 /\ SubSeq(s, 1, 3) = Ellipsis
EndsWithEllipsis(s) == Len(s) >= 3 /\ SubSeq(s, Len(s) - 2, Len(s)) = Ellipsis

\* a page without the markers of a forced split (the answers of the model
\* hold no "." of their own)
WithoutMarkers(s) ==
  SubSeq(s, IF StartsWithEllipsis(s) THEN 4 ELSE 1,
            IF EndsWithEllipsis(s) THEN Len(s) - 3 ELSE Len(s))

\* the pages put together again: the two halves of a forced split are joined
\* directly, any other two pages by a blank line
RECURSIVE Reassemble(_, _)
Reassemble(pgs, k) ==
  IF k > Len(pgs) THEN <<>>
  ELSE WithoutMarkers(pgs[k])
         \o (IF k = Len(pgs) THEN <<>>
             ELSE IF EndsWithEllipsis(pgs[k]) /\ StartsWithEllipsis(pgs[k + 1])
             THEN <<>> ELSE <<NL, NL>>)
         \o Reassemble(pgs, k + 1)

\* the paragraphs of a string that hold more than whitespace, each stripped
ContentParagraphs(s) ==
  LET ps == Split(s)
      stripped == [i \in 1..Len(ps) |-> Strip(ps[i])]
      NotEmpty(q) == q # <<>>
  IN SelectSeq(stripped, NotEmpty)

\* C13: the pages, put together again without the injected markers, hold the
\* paragraphs of the answer, in order, nothing lost and nothing twice.
C13_PagesReproduceAnswer ==
  pages_state = "returned"
    => ContentParagraphs(Reassemble(pages, 1)) = ContentParagraphs(answer)

\* three 800-character paragraphs: three pages, one paragraph each, and an
\* answer with a forced split was paginated too
C13_Witness ==
  /\ pages_state = "returned"
  /\ answer = Join(<<Rep("y", 800), Rep("y", 800), Rep("y", 800)>>)
  /\ pages = <<Rep("y", 800), Rep("y", 800), Rep("y", 800)>>

\* C20: an answer of at most page_size characters comes back as one page,
\* the answer itself.
C20_ShortAnswerOnePage ==
  (pages_state = "returned" /\ Len(answer) <= page_size) => pages = <<answer>>

\* an answer of exactly page_size characters, in two paragraphs, came back
\* whole
C20_Witness ==
  /\ pages_state = "returned"
  /\ Len(answer) = page_size
  /\ Len(Split(answer)) = 2
  /\ pages = <<answer>>

\* C14: the cursor of a view stays within 0..max_pages-1; next at the last
\* page and previous at page 0 leave it where it was.
C14_CursorClamped ==
  /\ 0 <= current_page /\ current_page <= max_pages - 1
  /\ (view_event.action = "next_page" /\ view_event.from = max_pages - 1)
       => current_page = view_event.from
  /\ (view_event.action = "previous_page" /\ view_event.from = 0)
       => current_page = view_event.from

\* next was pressed on the last page of a view of three pages
C14_Witness ==
  /\ max_pages = 3
  /\ view_event.action = "next_page"
  /\ view_event.from = 2
  /\ current_page = 2

\* C15: while the view takes interactions, first and previous are disabled
\* exactly at page 0, next and last exactly at the last page.
C15_EdgeButtonsDisabled ==
  ~view_finished
    => /\ disabled.first_page = (current_page = 0)
       /\ disabled.previous_page = (current_page = 0)
       /\ disabled.next_page = (current_page = max_pages - 1)
       /\ disabled.last_page = (current_page = max_pages - 1)

\* the last page was reached: next and last disabled, first and previous not
C15_Witness ==
  /\ ~view_finished
  /\ view_event.action \in {"next_page", "last_page"}
  /\ current_page = max_pages - 1
  /\ disabled.next_page /\ disabled.last_page
  /\ ~disabled.first_page /\ ~disabled.previous_page

\* the text is matched by a built-in pattern / by an active dynamic pattern
BuiltinHit(text) ==
  \E i \in 1..Len(default_keyword_patterns) :
     Search(default_keyword_patterns[i], text)
DynamicHits(text) ==
  {i \in (Len(default_keyword_patterns) + 1)..Len(compiled_patterns) :
     Search(compiled_patterns[i], text)}

\* C16: a text that a built-in and a dynamic pattern both match is a match
\* with no counter increment; an increment is spawned only for the first
\* matching pattern, when that one is dynamic.
C16_BuiltinPrecedence ==
  (kw_event.op = "match" /\ KEYWORD_TRIGGER_ENABLED
     /\ ~ExcludeMatches(kw_event.text))
    => LET text == kw_event.text
           run == kw_event.run
       IN /\ (BuiltinHit(text) /\ DynamicHits(text) # {})
               => (run.result /\ run.spawned = {})
          /\ run.spawned # {}
               => /\ ~BuiltinHit(text)
                  /\ DynamicHits(text) # {}
                  /\ run.spawned =
                       {compiled_patterns[
                          CHOOSE h \in DynamicHits(text) :
                             \A g \in DynamicHits(text) : h <= g]}

\* "sillytavern" was matched while the dynamic pattern "tavern" was active
C16_Witness ==
  /\ kw_event.op = "match"
  /\ kw_event.text = <<"sillytavern">>
  /\ BuiltinHit(kw_event.text)
  /\ DynamicHits(kw_event.text) # {}
  /\ kw_event.run.result
  /\ kw_event.run.spawned = {}

\* the text begins with a symbol, a greeting or a thanks word
HasExclusionShape(text) ==
  Len(text) > 0 /\ text[1] \in {"!", "#", "hello", "thanks"}

\* C17 as stated: a text with an exclusion shape and a keyword is no match,
\* and no keyword pattern is evaluated or counted for it.
C17_ExclusionShapeWins ==
  (kw_event.op = "match" /\ KEYWORD_TRIGGER_ENABLED
     /\ HasExclusionShape(kw_event.text) /\ BuiltinHit(kw_event.text))
    => /\ ~kw_event.run.result
       /\ kw_event.run.evaluated = 0
       /\ kw_event.run.spawned = {}

\* C17 as amended: a text that an exclusion pattern matches is no match and
\* no keyword pattern is evaluated or counted for it; "thanks sillytavern"
\* is matched by no exclusion pattern and is a match.
C17_ExclusionWins ==
  (kw_event.op = "match" /\ KEYWORD_TRIGGER_ENABLED)
    => /\ ExcludeMatches(kw_event.text)
            => /\ ~kw_event.run.result
               /\ kw_event.run.evaluated = 0
               /\ kw_event.run.spawned = {}
       /\ kw_event.text = <<"thanks", "sillytavern">> => kw_event.run.result

\* "#sillytavern", symbol-prefixed and holding a keyword, was no match
C17_Witness ==
  /\ kw_event.op = "match"
  /\ KEYWORD_TRIGGER_ENABLED
  /\ kw_event.text = <<"#", "sillytavern">>
  /\ BuiltinHit(kw_event.text)
  /\ ~kw_event.run.result

\* C18: an add of a pattern that does not compile ends in an error and
\* leaves the store and the active patterns as they were.
C18_InvalidAddRejected ==
  [][(kw_event'.op = "add" /\ ~Compiles(kw_event'.pattern))
       => /\ kw_event'.outcome \in {"invalid", "denied"}
          /\ UNCHANGED <<kw_store, compiled_patterns, keyword_patterns>>]_vars

\* "(" was refused while the store held a pattern
C18_Witness ==
  /\ kw_event = [op |-> "add", pattern |-> "(", outcome |-> "invalid"]
  /\ kw_store # <<>>
  /\ Len(compiled_patterns) > Len(default_keyword_patterns)

\* C19: a call with ephemeral = true never has an auto-delete task.
C19_EphemeralNeverScheduled == snd_ephemeral => del_task = "none"

\* the follow-up branch returned the message of an ephemeral response sent
\* with a positive delay
C19_Witness ==
  /\ snd_ephemeral
  /\ snd_target = "interaction"
  /\ snd_response_done
  /\ snd_delete_after > 0
  /\ snd_pc = "returned"
  /\ snd_return = "message"
  /\ del_task = "none"

\* C22: whenever a match can run, the compiled list it iterates and the
\* pattern-source list it indexes are of one snapshot: both as __init__
\* left them, or the compiled list is the compilation of the source list,
\* entry by entry.
C22_MatchUsesOneSnapshot ==
  IF compiled_patterns = <<>>
  THEN keyword_patterns = default_keyword_patterns
  ELSE compiled_patterns = keyword_patterns

\* a dynamic match is attributed while another reload, which read other
\* store contents, waits to resume
C22_Witness ==
  /\ kw_event.op = "match"
  /\ kw_event.run.spawned = {"error"}
  /\ \E t \in ReloadTasks :
       /\ reload_tasks[t].pc = "resumable"
       /\ reload_tasks[t].listed
       /\ get_regex_keywords(reload_tasks[t].store, TRUE)
            # dynamic_keyword_patterns

\* C27: when no reload is in flight and every query was answered, the
\* active dynamic patterns are the enabled patterns of the store.
C27_QuiescentReloadMatchesStore ==
  (/\ \A t \in {"startup", "cog_load"} : reload_tasks[t].pc = "done"
   /\ \A t \in CommandTasks : reload_tasks[t].pc \in {"unstarted", "done"}
   /\ \A t \in ReloadTasks :
        reload_tasks[t].pc = "done" => reload_tasks[t].listed)
    => dynamic_keyword_patterns = get_regex_keywords(kw_store, TRUE)

\* C23: in every message event, each run of matchesKeyword comes after
\* shouldProcess accepted the message.
C23_ShouldProcessFirst ==
  ev_trace.kind # "none" =>
    \A i \in 1..Len(ev_trace.log) :
       ev_trace.log[i] \in {"matchesKeyword", "matchesKeyword:before",
                            "matchesKeyword:after"}
         => \E j \in 1..(i - 1) : ev_trace.log[j] = "shouldProcess:accept"

\* C26: an event that dispatches a message to the keyword handler spawns
\* one increment, for the dynamic pattern that matched first, and none when
\* a built-in pattern matched first; an event that dispatches nothing spawns
\* none.
C26_OneIncrementPerDispatch ==
  ev_trace.kind # "none" =>
    ev_trace.spawned =
      (IF \E i \in 1..Len(ev_trace.log) : ev_trace.log[i] = "dispatch:keyword"
       THEN SpawnedBy(ev_trace.content) ELSE <<>>)

\* C24: a scheduled auto-delete leaves "sleeping" by one attempt that ends
\* in "deleted" or "delete_failed"; both are terminal; the attempt reaches
\* nothing of the call that scheduled it; a message that is already gone
\* makes the attempt fail.
C24_OneAttemptNoRetry ==
  [][/\ del_task \in {"deleted", "delete_failed"} => del_task' = del_task
     /\ (del_task = "sleeping" /\ del_task' # del_task)
          => /\ del_task' \in {"deleted", "delete_failed"}
             /\ UNCHANGED <<snd_pc, snd_return>>
             /\ snd_visible = "deleted" => del_task' = "delete_failed"
             /\ del_task' = "deleted" => snd_visible' = "deleted"]_vars

\* the attempt failed on a message the user had already deleted
C24_Witness ==
  /\ del_task = "delete_failed"
  /\ snd_visible = "deleted"
  /\ snd_pc = "returned"
  /\ snd_return = "message"

C30_NoEmptyPage ==
  (pages_state = "returned" /\ Strip(answer) # <<>>)
     => \A i \in 1..Len(pages) : pages[i] # <<>>

\* C21: classify_error_severity returns, for each message of the test
\* table, the severity the table expects.
C21_TestTableSeverities ==
  cl_severity \notin {"idle", "pending"} =>
    \A tc \in test_cases :
       tc.message = cl_message => cl_severity = tc.expected

\* C28: an occurrence at or over the threshold is notified exactly when the
\* key has no earlier notification or the last one is at least
\* notification_cooldown seconds old.
C28_NotifiedIffCooldownOver ==
  mon_event.decision \in {"notify", "cooldown"} =>
    (mon_event.decision = "notify"
       <=> \A last \in mon_event.last :
              mon_event.now - last >= notification_cooldown)

\* C29: any two notifications delivered for the key are at least
\* notification_cooldown seconds apart.
C29_OneNotificationPerWindow ==
  \A i, j \in 1..Len(mon_sent) :
     i < j => mon_sent[j] - mon_sent[i] >= notification_cooldown

====
